---- MODULE Spec2Model ----
(***************************************************************************)
(* Model of src/src/index.ts: the POST /mcp handler of the FreeCoinPrice   *)
(* server.  Every request builds a fresh McpServer, registers four tools,  *)
(* builds a fresh StreamableHTTPServerTransport, registers a 'close'       *)
(* listener on the response, connects and hands the request over.  The     *)
(* three proxy tools issue one axios GET each and wrap the outcome in a    *)
(* single text content block.                                              *)
(*                                                                         *)
(* Strings that end up in a content block are sequences of one-character   *)
(* strings, so that JSON.stringify and JSON.parse are computed, not        *)
(* assumed.  McpServer, the transport, zod and axios are libraries; their  *)
(* operators below model the calls the handler makes at the mapped lines.  *)
(***************************************************************************)
EXTENDS Naturals, Sequences, FiniteSets, TLC

(***************************************************************************)
(* JavaScript values that reach JSON.stringify.                            *)
(*   <<"str", chars>>  <<"num", digits>>  <<"arr", items>>                 *)
(*   <<"obj", <<key chars, value>> ...>>                                   *)
(***************************************************************************)
Str(chars) == <<"str", chars>>
Num(digits) == <<"num", digits>>
Arr(items) == <<"arr", items>>
Obj(pairs) == <<"obj", pairs>>

DQ == "\""
BS == "\\"
Digits == {"0", "1", "2", "3", "4", "5", "6", "7", "8", "9"}

RECURSIVE EscapeChars(_)
EscapeChars(chars) ==
    IF chars = <<>> THEN <<>>
    ELSE (IF Head(chars) \in {DQ, BS} THEN <<BS, Head(chars)>> ELSE <<Head(chars)>>)
         \o EscapeChars(Tail(chars))

Quote(chars) == <<DQ>> \o EscapeChars(chars) \o <<DQ>>

\* JSON.stringify(value) with no indent argument: no white space between tokens.
RECURSIVE JSONstringify(_)
RECURSIVE StringifyItems(_)
RECURSIVE StringifyPairs(_)
StringifyItems(items) ==
    IF items = <<>> THEN <<>>
    ELSE JSONstringify(Head(items))
         \o (IF Len(items) > 1 THEN <<",">> ELSE <<>>)
         \o StringifyItems(Tail(items))
StringifyPairs(pairs) ==
    IF pairs = <<>> THEN <<>>
    ELSE Quote(Head(pairs)[1]) \o <<":">> \o JSONstringify(Head(pairs)[2])
         \o (IF Len(pairs) > 1 THEN <<",">> ELSE <<>>)
         \o StringifyPairs(Tail(pairs))
JSONstringify(v) ==
    CASE v[1] = "str" -> Quote(v[2])
      [] v[1] = "num" -> v[2]
      [] v[1] = "arr" -> <<"[">> \o StringifyItems(v[2]) \o <<"]">>
      [] v[1] = "obj" -> <<"{">> \o StringifyPairs(v[2]) \o <<"}">>

\* JSON.parse(text): a recursive-descent parser of strings, numbers, arrays and
\* objects.  The result is [ok, val, next]; ok = FALSE is the SyntaxError.
ParseFail == [ok |-> FALSE, val |-> <<"none", <<>>>>, next |-> 0]
ParseOk(v, n) == [ok |-> TRUE, val |-> v, next |-> n]

RECURSIVE ScanString(_, _, _)
ScanString(t, j, acc) ==
    IF j > Len(t) THEN ParseFail
    ELSE IF t[j] = DQ THEN ParseOk(Str(acc), j + 1)
    ELSE IF t[j] = BS
         THEN IF j + 1 <= Len(t) /\ t[j + 1] \in {DQ, BS}
              THEN ScanString(t, j + 2, Append(acc, t[j + 1]))
              ELSE ParseFail
    ELSE ScanString(t, j + 1, Append(acc, t[j]))

RECURSIVE ScanDigits(_, _, _)
ScanDigits(t, j, acc) ==
    IF j <= Len(t) /\ t[j] \in Digits
    THEN ScanDigits(t, j + 1, Append(acc, t[j]))
    ELSE ParseOk(Num(acc), j)

RECURSIVE ParseValue(_, _)
RECURSIVE ParseElems(_, _, _)
RECURSIVE ParseMembers(_, _, _)
ParseElems(t, i, acc) ==
    LET r == ParseValue(t, i) IN
    IF ~r.ok \/ r.next > Len(t) THEN ParseFail
    ELSE IF t[r.next] = "," THEN ParseElems(t, r.next + 1, Append(acc, r.val))
    ELSE IF t[r.next] = "]" THEN ParseOk(Arr(Append(acc, r.val)), r.next + 1)
    ELSE ParseFail
ParseMembers(t, i, acc) ==
    IF i > Len(t) \/ t[i] # DQ THEN ParseFail
    ELSE LET k == ScanString(t, i + 1, <<>>) IN
         IF ~k.ok \/ k.next > Len(t) \/ t[k.next] # ":" THEN ParseFail
         ELSE LET r == ParseValue(t, k.next + 1) IN
              IF ~r.ok \/ r.next > Len(t) THEN ParseFail
              ELSE IF t[r.next] = ","
                   THEN ParseMembers(t, r.next + 1, Append(acc, <<k.val[2], r.val>>))
              ELSE IF t[r.next] = "}"
                   THEN ParseOk(Obj(Append(acc, <<k.val[2], r.val>>)), r.next + 1)
              ELSE ParseFail
ParseValue(t, i) ==
    IF i > Len(t) THEN ParseFail
    ELSE IF t[i] = DQ THEN ScanString(t, i + 1, <<>>)
    ELSE IF t[i] \in Digits THEN ScanDigits(t, i, <<>>)
    ELSE IF t[i] = "["
         THEN IF i + 1 <= Len(t) /\ t[i + 1] = "]" THEN ParseOk(Arr(<<>>), i + 2)
              ELSE ParseElems(t, i + 1, <<>>)
    ELSE IF t[i] = "{"
         THEN IF i + 1 <= Len(t) /\ t[i + 1] = "}" THEN ParseOk(Obj(<<>>), i + 2)
              ELSE ParseMembers(t, i + 1, <<>>)
    ELSE ParseFail

JSONparse(t) ==
    LET r == ParseValue(t, 1) IN
    IF r.ok /\ r.next = Len(t) + 1 THEN r ELSE ParseFail

IsValidJSON(t) == JSONparse(t).ok


(***************************************************************************)
(* Text constants of index.ts, as character sequences.                     *)
(***************************************************************************)
HelloText ==
    <<"h", "e", "l", "l", "o">>
ErrorKey ==
    <<"e", "r", "r", "o", "r">>
MsgSupportedCurrencies ==
    <<"F", "a", "i", "l", "e", "d", " ", "t", "o", " ", "f", "e", "t", "c", "h",
    " ", "s", "u", "p", "p", "o", "r", "t", "e", "d", " ", "c", "u", "r", "r",
    "e", "n", "c", "i", "e", "s">>
MsgCoinPrices ==
    <<"F", "a", "i", "l", "e", "d", " ", "t", "o", " ", "f", "e", "t", "c", "h",
    " ", "c", "o", "i", "n", " ", "p", "r", "i", "c", "e", "s">>
MsgHoldings ==
    <<"F", "a", "i", "l", "e", "d", " ", "t", "o", " ", "f", "e", "t", "c", "h",
    " ", "p", "u", "b", "l", "i", "c", " ", "c", "o", "m", "p", "a", "n", "i",
    "e", "s", " ", "h", "o", "l", "d", "i", "n", "g", "s">>
MsgStatus429 ==
    <<"R", "e", "q", "u", "e", "s", "t", " ", "f", "a", "i", "l", "e", "d", " ",
    "w", "i", "t", "h", " ", "s", "t", "a", "t", "u", "s", " ", "c", "o", "d",
    "e", " ", "4", "2", "9">>
MsgNetwork ==
    <<"N", "e", "t", "w", "o", "r", "k", " ", "E", "r", "r", "o", "r">>

(***************************************************************************)
(* Bounds of the model.                                                    *)
(***************************************************************************)
\* The concurrent POST /mcp requests.
Sessions == {"r1", "r2"}
\* "no object": the value of a reference that was not assigned yet.
None == "none"

(***************************************************************************)
(* Tool arguments as they arrive, before validation.                       *)
(***************************************************************************)
Undefined == [t |-> "undefined", v |-> ""]
S(v) == [t |-> "string", v |-> v]
N(v) == [t |-> "number", v |-> v]

ParamNames == {"ids", "names", "symbols", "vs_currencies"}

NoArgs ==
    [ids |-> Undefined, names |-> Undefined, symbols |-> Undefined,
     vs_currencies |-> Undefined, coin_id |-> Undefined]

\* The argument objects a caller sends, per tool name: every parameter left
\* out or supplied, and a vs_currencies that is no string.
RawArgs(tool) ==
    CASE tool = "getCoinPrice" ->
           {[NoArgs EXCEPT !.ids = i, !.names = n, !.symbols = y, !.vs_currencies = c] :
              i \in {Undefined, S("bitcoin")}, n \in {Undefined, S("Bitcoin")},
              y \in {Undefined, S("btc")}, c \in {Undefined, S("eur"), N("7")}}
      [] tool = "getPublicCompaniesHoldings" ->
           {[NoArgs EXCEPT !.coin_id = c] :
              c \in {Undefined, S("bitcoin"), S("ethereum"), S("dogecoin")}}
      [] OTHER -> {NoArgs}

\* The tool names a caller may ask for; getCoinList is commented out in the source.
ToolNames == {"hello", "getSupportedCurrencies", "getCoinPrice", "getPublicCompaniesHoldings"}
ProxyTools == ToolNames \ {"hello"}
RequestedNames == ToolNames \cup {"getCoinList"}

(***************************************************************************)
(* zod schemas.  A check yields [ok, value].                               *)
(***************************************************************************)
zString(raw) == [ok |-> raw.t = "string", value |-> raw]
zOptionalString(raw) == [ok |-> raw.t \in {"undefined", "string"}, value |-> raw]
zDefaultString(raw, dflt) ==
    IF raw.t = "undefined" THEN [ok |-> TRUE, value |-> S(dflt)] ELSE zString(raw)
zEnum(raw, allowed) == [ok |-> raw.t = "string" /\ raw.v \in allowed, value |-> raw]

\* z.enum(['bitcoin', 'ethereum']) accepting any string, as z.string() would.
coin_id_schema_anyString(raw) == zString(raw)
coin_id_schema(raw) == zEnum(raw, {"bitcoin", "ethereum"})

\* vs_currencies declared optional, with no default.
vs_currencies_schema_noDefault(raw) == zOptionalString(raw)
vs_currencies_schema(raw) == zDefaultString(raw, "usd")

\* The argument schema of each registered tool: [ok, args, issue], issue the
\* first parameter that failed.
ArgsSchema(tool, raw) ==
    CASE tool = "getCoinPrice" ->
           LET i == zOptionalString(raw.ids)
               n == zOptionalString(raw.names)
               y == zOptionalString(raw.symbols)
               c == vs_currencies_schema(raw.vs_currencies)
           IN  [ok |-> i.ok /\ n.ok /\ y.ok /\ c.ok,
                args |-> [NoArgs EXCEPT !.ids = i.value, !.names = n.value,
                                        !.symbols = y.value, !.vs_currencies = c.value],
                issue |-> IF ~i.ok THEN "ids" ELSE IF ~n.ok THEN "names"
                          ELSE IF ~y.ok THEN "symbols"
                          ELSE IF ~c.ok THEN "vs_currencies" ELSE ""]
      [] tool = "getPublicCompaniesHoldings" ->
           LET c == coin_id_schema(raw.coin_id)
           IN  [ok |-> c.ok, args |-> [NoArgs EXCEPT !.coin_id = c.value],
                issue |-> IF c.ok THEN "" ELSE "coin_id"]
      [] OTHER -> [ok |-> TRUE, args |-> NoArgs, issue |-> ""]

(***************************************************************************)
(* The upstream GET.                                                       *)
(***************************************************************************)
API_HOST == "https://api.coingecko.com/api/v3"

\* axios serialises params, leaving out the undefined ones.
AxiosQuery(params) ==
    [k \in {p \in DOMAIN params : params[p].t # "undefined"} |-> params[k].v]
NoParams == [k \in {} |-> Undefined]
NoRequest == [url |-> "", query |-> AxiosQuery(NoParams)]

getSupportedCurrenciesRequest ==
    [url |-> API_HOST \o "/simple/supported_vs_currencies", query |-> AxiosQuery(NoParams)]

getCoinPriceParams(args) ==
    [k \in ParamNames |-> args[k]]

getCoinPriceRequest(args) ==
    [url |-> API_HOST \o "/simple/price", query |-> AxiosQuery(getCoinPriceParams(args))]

getPublicCompaniesHoldingsRequest(args) ==
    [url |-> API_HOST \o "/companies/public_treasury/" \o args.coin_id.v,
     query |-> AxiosQuery(NoParams)]

RequestOf(tool, args) ==
    CASE tool = "getSupportedCurrencies" -> getSupportedCurrenciesRequest
      [] tool = "getCoinPrice" -> getCoinPriceRequest(args)
      [] tool = "getPublicCompaniesHoldings" -> getPublicCompaniesHoldingsRequest(args)

\* What the upstream GET can end in: a 2xx response with a body, a non-2xx
\* status, or no response at all.  axios rejects in the last two cases.
Outcomes ==
    << [ok |-> TRUE, kind |-> "response", status |-> 200, message |-> <<>>,
        data |-> Arr(<<Str(<<"u", "s", "d">>), Str(<<"e", "u", "r">>)>>)],
       [ok |-> TRUE, kind |-> "response", status |-> 200, message |-> <<>>,
        data |-> Obj(<< <<(<<"b", "t", "c">>), Obj(<< <<(<<"u", "s", "d">>), Num(<<"4", "2">>)>> >>)>> >>)],
       [ok |-> TRUE, kind |-> "response", status |-> 200, message |-> <<>>,
        data |-> Str(<<"b", "a", "d", " ", DQ, "g", "w", DQ>>)],
       [ok |-> FALSE, kind |-> "http", status |-> 429, message |-> MsgStatus429,
        data |-> Str(<<>>)],
       [ok |-> FALSE, kind |-> "network", status |-> 0, message |-> MsgNetwork,
        data |-> Str(<<>>)] >>
NoOutcome ==
    [ok |-> FALSE, kind |-> "none", status |-> 0, message |-> <<>>, data |-> Str(<<>>)]

(***************************************************************************)
(* Tool handlers.  A call record is the state of one tool invocation.      *)
(***************************************************************************)
TextResult(text) == [content |-> <<[type |-> "text", text |-> text]>>]
NoResult == [content |-> <<>>]

NoCall ==
    [stage |-> "none", tool |-> "", raw |-> NoArgs, gets |-> 0,
     request |-> NoRequest, outcome |-> NoOutcome, logged |-> <<>>,
     result |-> NoResult, issue |-> "", delivered |-> FALSE]

helloHandler(c) ==
    [c EXCEPT !.stage = "returned", !.result = TextResult(HelloText)]

\* The try block up to the await of axios.get.
TryGet(c, request) ==
    [c EXCEPT !.stage = "awaiting", !.gets = c.gets + 1, !.request = request]

\* A try block that hands a body that is already a string on as it is.
TryReturn_noStringify(c, response) ==
    [c EXCEPT !.stage = "returned", !.outcome = response,
              !.result = TextResult(IF response.data[1] = "str" THEN response.data[2]
                                    ELSE JSONstringify(response.data))]
\* The try block after the await: response.data is serialised verbatim.
TryReturn(c, response) ==
    [c EXCEPT !.stage = "returned", !.outcome = response,
              !.result = TextResult(JSONstringify(response.data))]

\* A catch block that puts the error's own message in the block.
CatchBlock_leaksMessage(c, fixedMessage, error) ==
    [c EXCEPT !.stage = "returned", !.outcome = error, !.logged = error.message,
              !.result = TextResult(JSONstringify(Obj(<< <<ErrorKey, Str(error.message)>> >>)))]
\* A catch block that logs and throws the error again.
CatchBlock_rethrows(c, fixedMessage, error) ==
    [c EXCEPT !.stage = "threw", !.outcome = error, !.logged = error.message]
\* A catch block that tries the GET once more.
CatchBlock_retries(c, fixedMessage, error) ==
    [c EXCEPT !.stage = IF c.gets < 2 THEN "awaiting" ELSE "returned",
              !.gets = IF c.gets < 2 THEN c.gets + 1 ELSE c.gets,
              !.outcome = error, !.logged = error.message,
              !.result = TextResult(JSONstringify(Obj(<< <<ErrorKey, Str(fixedMessage)>> >>)))]
\* The catch block: the error goes to the log, the fixed message to the caller.
CatchBlock(c, fixedMessage, error) ==
    [c EXCEPT !.stage = "returned", !.outcome = error, !.logged = error.message,
              !.result = TextResult(JSONstringify(Obj(<< <<ErrorKey, Str(fixedMessage)>> >>)))]

getSupportedCurrenciesHandler(c, outcome) ==
    IF outcome.ok THEN TryReturn(c, outcome)
    ELSE CatchBlock(c, MsgSupportedCurrencies, outcome)

getCoinPriceHandler(c, outcome) ==
    IF outcome.ok THEN TryReturn(c, outcome)
    ELSE CatchBlock(c, MsgCoinPrices, outcome)

getPublicCompaniesHoldingsHandler(c, outcome) ==
    IF outcome.ok THEN TryReturn(c, outcome)
    ELSE CatchBlock(c, MsgHoldings, outcome)

\* The handler of a proxy tool resumed with the outcome of its GET.
ResumeHandler(c, outcome) ==
    CASE c.tool = "getSupportedCurrencies" -> getSupportedCurrenciesHandler(c, outcome)
      [] c.tool = "getCoinPrice" -> getCoinPriceHandler(c, outcome)
      [] c.tool = "getPublicCompaniesHoldings" -> getPublicCompaniesHoldingsHandler(c, outcome)

(***************************************************************************)
(* State.                                                                  *)
(***************************************************************************)
VARIABLES
    pc,          \* per request: the position of the async route handler
    server,      \* per request: the handler's const server (an object, None before)
    transport,   \* per request: the handler's const transport
    servers,     \* the McpServer objects, by id
    transports,  \* the StreamableHTTPServerTransport objects, by id
    res,         \* per request: the response object and its connection
    call         \* per request: the tool call being served

vars == <<pc, server, transport, servers, transports, res, call>>

NoServer == [alive |-> FALSE, tools |-> {}, transport |-> None, onclose |-> 0]
NoTransport == [alive |-> FALSE, started |-> FALSE, onclose |-> None, closes |-> 0, handled |-> 0]
NewRes == [listener |-> FALSE, destroyed |-> FALSE, ended |-> FALSE, closeEmitted |-> FALSE]

\* The registrations of the handler, in source order.
ToolOrder == <<"hello", "getSupportedCurrencies", "getCoinPrice", "getPublicCompaniesHoldings">>
RegisterPcs == <<"tool_hello", "tool_getSupportedCurrencies", "tool_getCoinPrice",
                 "tool_getPublicCompaniesHoldings">>
\* Positions at which the handler is suspended in an await, or has returned or
\* thrown: only there can the event loop run another callback.
YieldPcs == {"awaitConnect", "awaitHandleRequest", "threw"}

Init ==
    /\ pc = [s \in Sessions |-> "start"]
    /\ server = [s \in Sessions |-> None]
    /\ transport = [s \in Sessions |-> None]
    /\ servers = [i \in Sessions |-> NoServer]
    /\ transports = [i \in Sessions |-> NoTransport]
    /\ res = [s \in Sessions |-> NewRes]
    /\ call = [s \in Sessions |-> NoCall]

(***************************************************************************)
(* The library objects.                                                    *)
(***************************************************************************)
\* A heap is the pair of object tables.
Heap(srvs, trs) == [servers |-> srvs, transports |-> trs]

\* Protocol._onclose: the server lets go of its transport.
ServerOnClose(H, sid) ==
    Heap([H.servers EXCEPT ![sid].transport = None, ![sid].onclose = @ + 1], H.transports)

\* transport.close(): ends the streams and runs the onclose callback.
TransportClose(H, tid) ==
    LET H1 == Heap(H.servers, [H.transports EXCEPT ![tid].closes = @ + 1])
    IN  IF H.transports[tid].onclose # None THEN ServerOnClose(H1, H.transports[tid].onclose)
        ELSE H1

\* server.close(): closes the transport the server is connected to, if any.
ServerClose(H, sid) ==
    IF H.servers[sid].transport # None THEN TransportClose(H, H.servers[sid].transport) ELSE H

\* A listener that only logs.
CloseListener_logsOnly(H, sid, tid) == H
\* The listener with the two closes in the other order.
CloseListener_serverFirst(H, sid, tid) == TransportClose(ServerClose(H, sid), tid)
\* The 'close' listener: transport.close(); server.close().
CloseListener(H, sid, tid) == ServerClose(TransportClose(H, tid), sid)

\* One module-level McpServer handed to every request.
NewMcpServer_shared(s) == CHOOSE r \in Sessions : TRUE
\* new McpServer(...): every evaluation yields an object of its own, named
\* here after the request that evaluates it.
NewMcpServer(s) == s

\* new StreamableHTTPServerTransport(...): likewise an object of its own.
NewStreamableHTTPServerTransport(s) == s

(***************************************************************************)
(* The route handler, statement by statement.                              *)
(***************************************************************************)
\* const server = new McpServer(...)
NewServer(s) ==
    /\ pc[s] = "start"
    /\ LET id == NewMcpServer(s) IN
       /\ server' = [server EXCEPT ![s] = id]
       /\ servers' = IF servers[id].alive THEN servers
                     ELSE [servers EXCEPT ![id] = [NoServer EXCEPT !.alive = TRUE]]
    /\ pc' = [pc EXCEPT ![s] = RegisterPcs[1]]
    /\ UNCHANGED <<transport, transports, res, call>>

\* server.tool(name, description, schema, handler); a name registered twice throws.
RegisterTool(s) ==
    \E i \in 1 .. Len(ToolOrder) :
       /\ pc[s] = RegisterPcs[i]
       /\ IF ToolOrder[i] \in servers[server[s]].tools
          THEN /\ pc' = [pc EXCEPT ![s] = "threw"]
               /\ UNCHANGED servers
          ELSE /\ servers' = [servers EXCEPT ![server[s]].tools = @ \cup {ToolOrder[i]}]
               /\ pc' = [pc EXCEPT ![s] = IF i < Len(ToolOrder) THEN RegisterPcs[i + 1]
                                          ELSE "newTransport"]
       /\ UNCHANGED <<server, transport, transports, res, call>>

\* const transport = new StreamableHTTPServerTransport({ sessionIdGenerator: undefined })
NewTransport(s) ==
    /\ pc[s] = "newTransport"
    /\ LET id == NewStreamableHTTPServerTransport(s) IN
       /\ transport' = [transport EXCEPT ![s] = id]
       /\ transports' = IF transports[id].alive THEN transports
                        ELSE [transports EXCEPT ![id] = [NoTransport EXCEPT !.alive = TRUE]]
    /\ pc' = [pc EXCEPT ![s] = "onClose"]
    /\ UNCHANGED <<server, servers, res, call>>

\* res.on('close', () => { transport.close(); server.close(); })
OnClose(s) ==
    /\ pc[s] = "onClose"
    /\ res' = [res EXCEPT ![s].listener = TRUE]
    /\ pc' = [pc EXCEPT ![s] = "connect"]
    /\ UNCHANGED <<server, transport, servers, transports, call>>

\* await server.connect(transport), up to the await: the server takes the
\* transport, wires its onclose and starts it; a started transport throws.
Connect(s) ==
    /\ pc[s] = "connect"
    /\ LET sid == server[s]
           tid == transport[s]
       IN  /\ servers' = [servers EXCEPT ![sid].transport = tid]
           /\ IF transports[tid].started
              THEN /\ transports' = [transports EXCEPT ![tid].onclose = sid]
                   /\ pc' = [pc EXCEPT ![s] = "threw"]
              ELSE /\ transports' = [transports EXCEPT ![tid].onclose = sid,
                                                       ![tid].started = TRUE]
                   /\ pc' = [pc EXCEPT ![s] = "awaitConnect"]
    /\ UNCHANGED <<server, transport, res, call>>

\* await transport.handleRequest(req, res, req.body): the transport takes the
\* request; nothing follows it in the route handler.
HandleRequest(s) ==
    /\ pc[s] = "awaitConnect"
    /\ transports' = [transports EXCEPT ![transport[s]].handled = @ + 1]
    /\ pc' = [pc EXCEPT ![s] = "awaitHandleRequest"]
    /\ UNCHANGED <<server, transport, servers, res, call>>

\* The response can still be written to: the connection is up and the
\* transport was not closed.
CanDeliver(s) ==
    ~res[s].destroyed /\ ~res[s].closeEmitted /\ transports[transport[s]].closes = 0

\* A reply leaves through the transport and ends the response, or is dropped.
Settle(s, c) ==
    IF c.stage \in {"returned", "rejected", "threw"}
    THEN /\ call' = [call EXCEPT ![s] = [c EXCEPT !.delivered = CanDeliver(s)]]
         /\ res' = [res EXCEPT ![s].ended = CanDeliver(s)]
    ELSE /\ call' = [call EXCEPT ![s] = c]
         /\ UNCHANGED res

\* The runtime dispatches a tools/call: unknown names and arguments the schema
\* rejects end in a protocol error and the handler is not run.
DispatchCall(registered, tool, raw) ==
    LET c0 == [NoCall EXCEPT !.tool = tool, !.raw = raw]
        v == ArgsSchema(tool, raw)
    IN  IF tool \notin registered THEN [c0 EXCEPT !.stage = "rejected", !.issue = "name"]
        ELSE IF ~v.ok THEN [c0 EXCEPT !.stage = "rejected", !.issue = v.issue]
        ELSE IF tool = "hello" THEN helloHandler(c0)
        ELSE TryGet(c0, RequestOf(tool, v.args))

\* The POST carries one tools/call.
Dispatch(s) ==
    /\ pc[s] = "awaitHandleRequest"
    /\ call[s].stage = "none"
    /\ ~res[s].ended
    /\ \E tool \in RequestedNames : \E raw \in RawArgs(tool) :
         Settle(s, DispatchCall(servers[server[s]].tools, tool, raw))
    /\ UNCHANGED <<pc, server, transport, servers, transports>>

\* The POST carries no tools/call (initialize, tools/list): the runtime answers.
Reply(s) ==
    /\ pc[s] = "awaitHandleRequest"
    /\ call[s].stage = "none"
    /\ CanDeliver(s) /\ ~res[s].ended
    /\ res' = [res EXCEPT ![s].ended = TRUE]
    /\ UNCHANGED <<pc, server, transport, servers, transports, call>>

\* The upstream GET settles and the handler runs to its return.
UpstreamResponds(s) ==
    /\ call[s].stage = "awaiting"
    /\ \E k \in 1 .. Len(Outcomes) : Settle(s, ResumeHandler(call[s], Outcomes[k]))
    /\ UNCHANGED <<pc, server, transport, servers, transports>>

\* The client goes away before the response has ended.
ConnectionLost(s) ==
    /\ pc[s] # "start"
    /\ ~res[s].destroyed /\ ~res[s].ended /\ ~res[s].closeEmitted
    /\ res' = [res EXCEPT ![s].destroyed = TRUE]
    /\ UNCHANGED <<pc, server, transport, servers, transports, call>>

\* Node emits 'close' on the response, once, after it ended or its connection
\* went away; the listener runs between two steps of the handler.
EmitClose(s) ==
    /\ pc[s] \in YieldPcs
    /\ res[s].destroyed \/ res[s].ended
    /\ ~res[s].closeEmitted
    /\ res' = [res EXCEPT ![s].closeEmitted = TRUE]
    /\ LET H == IF res[s].listener
                THEN CloseListener(Heap(servers, transports), server[s], transport[s])
                ELSE Heap(servers, transports)
       IN  /\ servers' = H.servers
           /\ transports' = H.transports
    /\ UNCHANGED <<pc, server, transport, call>>

HandlerStep(s) ==
    \/ NewServer(s)
    \/ RegisterTool(s)
    \/ NewTransport(s)
    \/ OnClose(s)
    \/ Connect(s)
    \/ HandleRequest(s)

SessionStep(s) ==
    \/ HandlerStep(s)
    \/ Dispatch(s)
    \/ Reply(s)
    \/ UpstreamResponds(s)
    \/ ConnectionLost(s)
    \/ EmitClose(s)

Next == \E s \in Sessions : SessionStep(s)

Spec == Init /\ [][Next]_vars

\* The event loop runs every ready callback: the handler's own steps and the
\* emission of 'close'.  The upstream and the client are under no obligation.
LiveSpec == Spec /\ \A s \in Sessions : WF_vars(HandlerStep(s)) /\ WF_vars(EmitClose(s))

(***************************************************************************)
(* Properties.                                                             *)
(***************************************************************************)
\* The upstream GET of the call of request s was rejected by axios.
UpstreamFailed(s) == call[s].tool \in ProxyTools /\ call[s].outcome.kind \in {"http", "network"}

\* The fixed message of each proxy tool, as the interface lists them.
FixedMessage(tool) ==
    CASE tool = "getSupportedCurrencies" -> MsgSupportedCurrencies
      [] tool = "getCoinPrice" -> MsgCoinPrices
      [] tool = "getPublicCompaniesHoldings" -> MsgHoldings

OneTextBlock(r) == Len(r.content) = 1 /\ r.content[1].type = "text"

\* C1: whenever the upstream GET of a proxy tool fails (non-2xx status or no
\* response), the handler returns normally an envelope of exactly one text
\* block whose text JSON-decodes to {error: M}, M the tool's fixed message;
\* the failure does not leave the handler.
C1_FailureEnvelope ==
    \A s \in Sessions :
       UpstreamFailed(s) =>
          /\ call[s].stage = "returned"
          /\ OneTextBlock(call[s].result)
          /\ JSONparse(call[s].result.content[1].text).ok
          /\ JSONparse(call[s].result.content[1].text).val
                = Obj(<< <<ErrorKey, Str(FixedMessage(call[s].tool))>> >>)

\* C1 witness: an HTTP-status failure and a network failure, on two different
\* proxy tools, both answered.
C1_Witness ==
    \E s, t \in Sessions :
       /\ UpstreamFailed(s) /\ call[s].outcome.kind = "http"
       /\ UpstreamFailed(t) /\ call[t].outcome.kind = "network"
       /\ call[s].tool # call[t].tool
       /\ call[s].stage = "returned" /\ call[t].stage = "returned"

\* C2 as stated: every tool, hello included, returns exactly one text block
\* whose text is valid JSON.
C2_Original ==
    \A s \in Sessions :
       call[s].stage = "returned" =>
          OneTextBlock(call[s].result) /\ IsValidJSON(call[s].result.content[1].text)

\* C2 amended: every tool returns exactly one text block; the text of a proxy
\* tool is valid JSON whatever the upstream GET ended in; the text of hello is
\* the bare word hello, which is not JSON.
C2_Amended ==
    \A s \in Sessions :
       call[s].stage = "returned" =>
          /\ OneTextBlock(call[s].result)
          /\ call[s].tool \in ProxyTools => IsValidJSON(call[s].result.content[1].text)
          /\ call[s].tool = "hello" =>
                /\ call[s].result.content[1].text = HelloText
                /\ ~IsValidJSON(call[s].result.content[1].text)

\* C2 witness: hello answered, and a proxy tool answered with a body that is a
\* plain string holding a quote.
C2_Witness ==
    \E s, t \in Sessions :
       /\ call[s].tool = "hello" /\ call[s].stage = "returned"
       /\ call[t].tool \in ProxyTools /\ call[t].stage = "returned"
       /\ call[t].outcome.ok /\ call[t].outcome.data[1] = "str"

\* The transport of request s was closed and its server let go of it.
Closed(s) ==
    /\ server[s] # None /\ transport[s] # None
    /\ transports[transport[s]].closes >= 1
    /\ servers[server[s]].onclose >= 1
    /\ servers[server[s]].transport = None

\* C3: the server and the transport of a request are released at most once,
\* exactly once as soon as 'close' was handled, also when it comes while a
\* tool call is in flight or before any reply; the route handler never throws.
C3_ReleasedOnce ==
    /\ \A i \in Sessions : transports[i].closes <= 1 /\ servers[i].onclose <= 1
    /\ \A s \in Sessions :
          /\ pc[s] # "threw"
          /\ call[s].stage # "threw"
          /\ res[s].closeEmitted =>
                /\ Closed(s)
                /\ transports[transport[s]].closes = 1
                /\ servers[server[s]].onclose = 1

\* C3 witness: the connection closed while the upstream GET was in flight.
C3_Witness ==
    \E s \in Sessions :
       res[s].closeEmitted /\ ~res[s].ended /\ call[s].stage = "awaiting" /\ Closed(s)

CoinIdAllowed(raw) == raw.coin_id.t = "string" /\ raw.coin_id.v \in {"bitcoin", "ethereum"}

\* C4: a getPublicCompaniesHoldings call whose coin_id is not "bitcoin" or
\* "ethereum" ends in a protocol error naming coin_id; no envelope is built
\* and no upstream GET is issued.
C4_EnumRejected ==
    \A s \in Sessions :
       (call[s].tool = "getPublicCompaniesHoldings" /\ ~CoinIdAllowed(call[s].raw)) =>
          /\ call[s].stage = "rejected"
          /\ call[s].issue = "coin_id"
          /\ call[s].gets = 0
          /\ call[s].request = NoRequest
          /\ call[s].result = NoResult

\* C4 witness: coin_id "dogecoin" was rejected, and "bitcoin" went upstream.
C4_Witness ==
    \E s, t \in Sessions :
       /\ call[s].tool = "getPublicCompaniesHoldings" /\ call[s].raw.coin_id = S("dogecoin")
       /\ call[s].stage = "rejected"
       /\ call[t].tool = "getPublicCompaniesHoldings" /\ call[t].raw.coin_id = S("bitcoin")
       /\ call[t].gets = 1

\* All of request t that a step can touch.
View(t) ==
    <<pc[t], server[t], transport[t], res[t], call[t],
      IF server[t] = None THEN NoServer ELSE servers[server[t]],
      IF transport[t] = None THEN NoTransport ELSE transports[transport[t]]>>

OwnObjects ==
    \A s, t \in Sessions :
       s # t =>
          /\ server[s] # None => server[s] # server[t]
          /\ transport[s] # None => transport[s] # transport[t]
          /\ server[s] # None => servers[server[s]].transport \in {None, transport[s]}
          /\ transport[s] # None => transports[transport[s]].onclose \in {None, server[s]}

\* C5: two requests never hold the same server or transport, a server is only
\* ever connected to the transport of its own request, and a step of one
\* request (registration, connect, dispatch, upstream reply, close) leaves the
\* registry, the call and the open/closed status of the other as they were.
C5_Isolation ==
    /\ []OwnObjects
    /\ [][\A s, t \in Sessions : (s # t /\ SessionStep(s)) => View(t)' = View(t)]_vars

\* C5 witness: one request torn down with its GET in flight while the other
\* is open and has delivered its reply.
C5_Witness ==
    \E s, t \in Sessions :
       /\ s # t
       /\ Closed(s) /\ call[s].stage = "awaiting"
       /\ ~Closed(t) /\ call[t].stage = "returned" /\ call[t].delivered
       /\ servers[server[t]].tools = ToolNames

C7_Query ==
    \A s \in Sessions :
       (call[s].tool = "getCoinPrice" /\ call[s].gets >= 1) =>
          LET q == call[s].request.query
              raw == call[s].raw
          IN  /\ call[s].request.url = "https://api.coingecko.com/api/v3/simple/price"
              /\ "vs_currencies" \in DOMAIN q
              /\ q["vs_currencies"] = IF raw.vs_currencies.t = "undefined" THEN "usd"
                                      ELSE raw.vs_currencies.v
              /\ \A p \in {"ids", "names", "symbols"} :
                    /\ p \in DOMAIN q <=> raw[p].t # "undefined"
                    /\ p \in DOMAIN q => q[p] = raw[p].v
              /\ DOMAIN q \subseteq ParamNames
              /\ raw = NoArgs => DOMAIN q = {"vs_currencies"}

\* C7 witness: getCoinPrice() with nothing supplied went upstream, and so did
\* one with all four supplied.
C7_Witness ==
    \E s, t \in Sessions :
       /\ call[s].tool = "getCoinPrice" /\ call[s].raw = NoArgs /\ call[s].gets = 1
       /\ call[t].tool = "getCoinPrice" /\ call[t].gets = 1
       /\ DOMAIN call[t].request.query = ParamNames
       /\ call[t].request.query["vs_currencies"] = "eur"

\* C8: two failed upstream calls of the same proxy tool give the caller the
\* same envelope, whatever status, message and kind the errors have; the
\* message of the error is what was logged.
C8_FailureIndependent ==
    \A s, t \in Sessions :
       /\ UpstreamFailed(s) => call[s].logged = call[s].outcome.message
       /\ (UpstreamFailed(s) /\ UpstreamFailed(t) /\ call[s].tool = call[t].tool) =>
             call[s].result = call[t].result

\* C8 witness: the same tool failed in both requests, with errors that differ
\* in status, message and kind.
C8_Witness ==
    \E s, t \in Sessions :
       /\ UpstreamFailed(s) /\ UpstreamFailed(t) /\ call[s].tool = call[t].tool
       /\ call[s].outcome.status # call[t].outcome.status
       /\ call[s].outcome.message # call[t].outcome.message
       /\ call[s].outcome.kind # call[t].outcome.kind
       /\ call[s].logged # call[t].logged

\* C9: once the response has ended or the connection went away, the request
\* is eventually closed, server and transport released, also with a GET in
\* flight; a closed request stays closed, and a result that arrives
\* afterwards is dropped.
C9_EventuallyClosed ==
    /\ \A s \in Sessions : (res[s].ended \/ res[s].destroyed) ~> Closed(s)
    /\ [][\A s \in Sessions :
             Closed(s) => /\ Closed(s)'
                          /\ call'[s].delivered = call[s].delivered
                          /\ res'[s].ended = res[s].ended]_vars

\* C9 witness: the GET settled after the request was closed and its result
\* was dropped.
C9_Witness ==
    \E s \in Sessions :
       /\ Closed(s) /\ res[s].destroyed
       /\ call[s].stage = "returned" /\ ~call[s].delivered /\ ~res[s].ended

\* C10: no invocation issues a second GET; a proxy tool whose handler ran has
\* issued exactly one, whether it succeeded or failed; hello and rejected
\* calls issue none.
C10_SingleGet ==
    \A s \in Sessions :
       /\ call[s].gets <= 1
       /\ (call[s].tool \in ProxyTools /\ call[s].stage \in {"awaiting", "returned"}) =>
             call[s].gets = 1
       /\ call[s].tool = "hello" => call[s].gets = 0
       /\ call[s].stage = "rejected" => call[s].gets = 0

\* C10 witness: a proxy tool answered after a failed GET, and hello answered.
C10_Witness ==
    \E s, t \in Sessions :
       /\ UpstreamFailed(s) /\ call[s].stage = "returned" /\ call[s].gets = 1
       /\ call[t].tool = "hello" /\ call[t].stage = "returned" /\ call[t].gets = 0
====
